---------------------------- MODULE Spec2Model ----------------------------
(***************************************************************************)
(* A model of enterprise_catalog/apps/api/v1:                              *)
(*   - serializers.py: find_and_modify_catalog_query (the CatalogQuery     *)
(*     resolver), EnterpriseCatalogSerializer.create/update, and           *)
(*     ContentMetadataSerializer.to_representation;                        *)
(*   - export_utils.py: course_hit_to_row and facets_to_query.             *)
(* The CatalogQuery table, its constraints and get_content_filter_hash     *)
(* live outside these two files and are modelled from the specification.   *)
(***************************************************************************)
EXTENDS Integers, Sequences, FiniteSets, TLC

VARIABLES
    store,      \* the CatalogQuery table: a sequence of rows, a row's id is its index
    catalogs,   \* the EnterpriseCatalog table: catalogs[c] is the id of c's CatalogQuery
    log,        \* the last two calls, older first: arguments, outcome, tables before
    ncalls,     \* the number of calls made
    enrich,     \* a to_representation call: the record, the context, the objects
    export      \* an export_utils call: the function, its argument and its result

vars == <<store, catalogs, log, ncalls, enrich, export>>
serializing == <<enrich, export>>
resolving == <<store, catalogs, log, ncalls>>

(***************************************************************************)
(* Bounds of the model.                                                    *)
(***************************************************************************)
MaxCalls == 3
MaxRuns == 2
MaxAbsent == 2

(***************************************************************************)
(* Values.  Python's None is the string "None".  A content filter is the   *)
(* ordered list of the keys of a JSON object; a title and a uuid are       *)
(* strings.                                                                *)
(***************************************************************************)
None == "None"
Filters == {<<1, 2>>, <<2, 1>>, <<1>>}
Titles == {None, "A"}
CallerUuids == {"u1", "u2"}

\* The uuid4() default of the CatalogQuery row with the given id: fresh, and
\* never one a caller made up.
Uuid4(id) == <<"g1", "g2", "g3", "g4", "g5", "g6">>[id]

\* Python truthiness of an optional string (None and '' are falsy).
Truthy(v) == v # None /\ v # ""

(***************************************************************************)
(* get_content_filter_hash: the digest of the filter serialised with its   *)
(* keys sorted.  Two filters that differ only in key order hash alike.     *)
(***************************************************************************)
RECURSIVE SortedKeys(_)
SortedKeys(S) ==
    IF S = {} THEN <<>>
    ELSE LET m == CHOOSE x \in S : \A y \in S : x <= y
         IN <<m>> \o SortedKeys(S \ {m})

get_content_filter_hash(content_filter) ==
    SortedKeys({content_filter[i] : i \in DOMAIN content_filter})

(***************************************************************************)
(* The CatalogQuery table.                                                 *)
(***************************************************************************)
Row(uuid, content_filter, title, hash, flag) ==
    [uuid |-> uuid, content_filter |-> content_filter, title |-> title,
     content_filter_hash |-> hash, include_exec_ed_2u_courses |-> flag]

NaturalKey(row) == <<row.content_filter_hash, row.include_exec_ed_2u_courses>>

\* CatalogQuery.get_by_uuid: the id of the row with that uuid, 0 for None.
get_by_uuid(st, uuid) ==
    IF \E i \in DOMAIN st : st[i].uuid = uuid
    THEN CHOOSE i \in DOMAIN st : st[i].uuid = uuid
    ELSE 0

\* objects.get(content_filter_hash=..., include_exec_ed_2u_courses=...).
GetByNaturalKey(st, hash, flag) ==
    IF \E i \in DOMAIN st : NaturalKey(st[i]) = <<hash, flag>>
    THEN CHOOSE i \in DOMAIN st : NaturalKey(st[i]) = <<hash, flag>>
    ELSE 0

\* The table's unique constraints: would writing `row` as row `id` break one?
UniqueViolation(st, id, row) ==
    \E j \in DOMAIN st :
        /\ j # id
        /\ \/ NaturalKey(st[j]) = NaturalKey(row)
           \/ st[j].uuid = row.uuid

\* Model.save() of an existing row: the UPDATE either happens or raises
\* IntegrityError and changes nothing.
SaveRow(st, id, row) ==
    IF UniqueViolation(st, id, row)
    THEN [store |-> st, error |-> "IntegrityError"]
    ELSE [store |-> [st EXCEPT ![id] = row], error |-> None]

\* objects.create(...): the INSERT of a new row, whose id is the next one.
InsertRow(st, row) ==
    IF UniqueViolation(st, 0, row)
    THEN [store |-> st, error |-> "IntegrityError"]
    ELSE [store |-> Append(st, row), error |-> None]


(***************************************************************************)
(* find_and_modify_catalog_query.  Each branch returns the table after the *)
(* call, the exception raised (None when the call returns) and the id of   *)
(* the row returned (0 when it raises).                                    *)
(***************************************************************************)
Returned(st, id, branch) ==
    [store |-> st, error |-> None, field |-> None, cause |-> None,
     result |-> id, branch |-> branch]

Raised(st, error, field, cause, branch) ==
    [store |-> st, error |-> error, field |-> field, cause |-> cause,
     result |-> 0, branch |-> branch]

\* Mutant: the title is left out of the overwrite.
UpdateFromUuid_TitleNotSet(st, id, content_filter, query_title, hash, flag) ==
    LET row == Row(st[id].uuid, content_filter, st[id].title, hash, flag)
        saved == SaveRow(st, id, row)
    IN IF saved.error = "IntegrityError"
       THEN Raised(saved.store, "ValidationError", "catalog_query",
                   "IntegrityError", "uuid_found")
       ELSE Returned(saved.store, id, "uuid_found")

\* Mutant: the title is saved on its own before the other fields, so a
\* collision leaves the row half updated.
UpdateFromUuid_SavesTitleFirst(st, id, content_filter, query_title, hash, flag) ==
    LET first == SaveRow(st, id, [st[id] EXCEPT !.title = query_title])
        row == Row(st[id].uuid, content_filter, query_title, hash, flag)
        saved == SaveRow(first.store, id, row)
    IN IF saved.error = "IntegrityError"
       THEN Raised(saved.store, "ValidationError", "catalog_query",
                   "IntegrityError", "uuid_found")
       ELSE Returned(saved.store, id, "uuid_found")

\* Mutant: the IntegrityError is swallowed and the row that already holds the
\* natural key is returned in R's place.
UpdateFromUuid_SilentMerge(st, id, content_filter, query_title, hash, flag) ==
    LET row == Row(st[id].uuid, content_filter, query_title, hash, flag)
        saved == SaveRow(st, id, row)
    IN IF saved.error = "IntegrityError"
       THEN Returned(saved.store, GetByNaturalKey(st, hash, flag), "uuid_found")
       ELSE Returned(saved.store, id, "uuid_found")

\* Mutant: content_filter_hash is left out of the overwrite, so the row keeps
\* the hash of its former filter.
UpdateFromUuid_HashNotSet(st, id, content_filter, query_title, hash, flag) ==
    LET row == Row(st[id].uuid, content_filter, query_title,
                   st[id].content_filter_hash, flag)
        saved == SaveRow(st, id, row)
    IN IF saved.error = "IntegrityError"
       THEN Raised(saved.store, "ValidationError", "catalog_query",
                   "IntegrityError", "uuid_found")
       ELSE Returned(saved.store, id, "uuid_found")

\* The uuid resolves to row `id`: overwrite it in place and save.
UpdateFromUuid(st, id, content_filter, query_title, hash, flag) ==
    LET row == Row(st[id].uuid, content_filter, query_title, hash, flag)
        saved == SaveRow(st, id, row)
    IN IF saved.error = "IntegrityError"
       THEN Raised(saved.store, "ValidationError", "catalog_query",
                   "IntegrityError", "uuid_found")
       ELSE Returned(saved.store, id, "uuid_found")

\* Mutant: get_or_create in the place of update_or_create, so that a matching
\* row is returned without the defaults written over it.
UpdateOrCreate_DefaultsOnCreateOnly(st, content_filter, uuid, query_title, hash, flag) ==
    LET id == GetByNaturalKey(st, hash, flag)
        done == InsertRow(st, Row(uuid, content_filter, query_title, hash, flag))
    IN IF id # 0 THEN Returned(st, id, "uuid_not_found")
       ELSE IF done.error # None
       THEN Raised(done.store, done.error, None, None, "uuid_not_found")
       ELSE Returned(done.store, Len(st) + 1, "uuid_not_found")

\* The uuid resolves to nothing: objects.update_or_create by natural key.  A
\* matching row gets the defaults written over it; otherwise a row is created
\* from the key and the defaults.
UpdateOrCreate(st, content_filter, uuid, query_title, hash, flag) ==
    LET id == GetByNaturalKey(st, hash, flag)
        row == Row(uuid, content_filter, query_title, hash, flag)
        done == IF id # 0 THEN SaveRow(st, id, row) ELSE InsertRow(st, row)
        rid == IF id # 0 THEN id ELSE Len(st) + 1
    IN IF done.error # None
       THEN Raised(done.store, done.error, None, None, "uuid_not_found")
       ELSE Returned(done.store, rid, "uuid_not_found")

\* Mutant: update_or_create in the place of get_or_create, so that a matching
\* row has the call's filter and title written over it.
GetOrCreate_OverwritesMatch(st, content_filter, query_title, hash, flag) ==
    LET id == GetByNaturalKey(st, hash, flag)
        row == Row(Uuid4(Len(st) + 1), content_filter, query_title, hash, flag)
        done == IF id # 0
                THEN SaveRow(st, id, Row(st[id].uuid, content_filter, query_title, hash, flag))
                ELSE InsertRow(st, row)
        rid == IF id # 0 THEN id ELSE Len(st) + 1
    IN IF done.error # None
       THEN Raised(done.store, done.error, None, None, "no_uuid")
       ELSE Returned(done.store, rid, "no_uuid")

\* No uuid: objects.get_or_create by natural key.  A matching row is returned
\* as it is; otherwise a row is created from the key and the defaults, with
\* the model's default uuid.
GetOrCreate(st, content_filter, query_title, hash, flag) ==
    LET id == GetByNaturalKey(st, hash, flag)
        row == Row(Uuid4(Len(st) + 1), content_filter, query_title, hash, flag)
        done == InsertRow(st, row)
    IN IF id # 0 THEN Returned(st, id, "no_uuid")
       ELSE IF done.error # None
       THEN Raised(done.store, done.error, None, None, "no_uuid")
       ELSE Returned(done.store, Len(st) + 1, "no_uuid")

find_and_modify_catalog_query(st, content_filter, catalog_query_uuid, query_title, include_exec_ed_2u_courses) ==
    LET hashed_content_filter == get_content_filter_hash(content_filter)
        catalog_query_from_uuid == get_by_uuid(st, catalog_query_uuid)
    IN IF Truthy(catalog_query_uuid)
       THEN IF catalog_query_from_uuid # 0
            THEN UpdateFromUuid(st, catalog_query_from_uuid, content_filter,
                                query_title, hashed_content_filter,
                                include_exec_ed_2u_courses)
            ELSE UpdateOrCreate(st, content_filter, catalog_query_uuid,
                                query_title, hashed_content_filter,
                                include_exec_ed_2u_courses)
       ELSE GetOrCreate(st, content_filter, query_title,
                        hashed_content_filter, include_exec_ed_2u_courses)

(***************************************************************************)
(* The record of a call, kept for the properties: what was passed to       *)
(* find_and_modify_catalog_query, what came back, and both tables as they  *)
(* were before the call.  The table after the call is the table before the *)
(* next one, or the current table.                                         *)
(***************************************************************************)
CallRecord(op, cf, uuid, title, flag, r, catalog, given) ==
    [op |-> op, content_filter |-> cf, uuid |-> uuid, title |-> title,
     flag |-> flag, error |-> r.error, field |-> r.field, cause |-> r.cause,
     result |-> r.result, branch |-> r.branch, before |-> store,
     catalog |-> catalog, catalogsBefore |-> catalogs,
     given |-> given]

Init ==
    /\ store = <<>>
    /\ catalogs = <<>>
    /\ log = <<>>
    /\ ncalls = 0
    /\ enrich = [pc |-> "idle"]
    /\ export = [pc |-> "idle"]

\* The log with one more call, keeping the last two.
Logged(rec) == IF log = <<>> THEN <<rec>> ELSE <<log[Len(log)], rec>>

\* A direct call of find_and_modify_catalog_query.
Resolve ==
    /\ ncalls < MaxCalls
    /\ ncalls' = ncalls + 1
    /\ \E cf \in Filters, uuid \in CallerUuids \cup {None},
          title \in Titles, flag \in BOOLEAN :
        LET r == find_and_modify_catalog_query(store, cf, uuid, title, flag)
        IN /\ store' = r.store
           /\ log' = Logged(CallRecord("resolve", cf, uuid, title, flag,
                                        r, 0, {}))
           /\ UNCHANGED <<catalogs, serializing>>

Next == Resolve

Spec == Init /\ [][Next]_vars

(***************************************************************************)
(* EnterpriseCatalogSerializer.  validated_data is the set `given` of the  *)
(* keys the request carried and a record `data` of their values.           *)
(***************************************************************************)
Get(given, data, key, default) == IF key \in given THEN data[key] ELSE default

\* The requests the model makes: create with a filter and perhaps a uuid;
\* update with any of a filter, a null uuid, a title and the flag.
CreateKeys == {{"content_filter"}, {"content_filter", "catalog_query_uuid"}}
UpdateKeys == SUBSET {"content_filter", "catalog_query_uuid", "query_title",
                      "include_exec_ed_2u_courses"}
CreateData ==
    [content_filter : Filters, catalog_query_uuid : {"u1"},
     query_title : {None}, include_exec_ed_2u_courses : {FALSE}]
UpdateData ==
    [content_filter : Filters, catalog_query_uuid : {None},
     query_title : {"A"}, include_exec_ed_2u_courses : {TRUE}]

\* A key that is not given has one value only: it is never read.
Canonical(given, data, base) ==
    \A k \in DOMAIN data : k \notin given => data[k] = base[k]

Arguments(cf, uuid, title, flag) ==
    [content_filter |-> cf, uuid |-> uuid, title |-> title, flag |-> flag]

\* create: the arguments popped from validated_data.
CreateArguments(given, data) ==
    Arguments(data.content_filter,
              Get(given, data, "catalog_query_uuid", None),
              Get(given, data, "query_title", None),
              Get(given, data, "include_exec_ed_2u_courses", FALSE))

\* Mutant: the uuid of the catalog's own query is not taken as the default.
UpdateArguments_NoDefaultUuid(st, q, given, data) ==
    LET has == q # 0
    IN Arguments(
        Get(given, data, "content_filter", IF has THEN st[q].content_filter ELSE None),
        Get(given, data, "catalog_query_uuid", None),
        Get(given, data, "query_title", IF has THEN st[q].title ELSE None),
        Get(given, data, "include_exec_ed_2u_courses",
            IF has THEN st[q].include_exec_ed_2u_courses ELSE FALSE))

\* update: the arguments, each defaulting to the field of the catalog's own
\* query q (0 when the catalog has none).
UpdateArguments(st, q, given, data) ==
    LET has == q # 0
    IN Arguments(
        Get(given, data, "content_filter", IF has THEN st[q].content_filter ELSE None),
        Get(given, data, "catalog_query_uuid", IF has THEN st[q].uuid ELSE None),
        Get(given, data, "query_title", IF has THEN st[q].title ELSE None),
        Get(given, data, "include_exec_ed_2u_courses",
            IF has THEN st[q].include_exec_ed_2u_courses ELSE FALSE))

\* EnterpriseCatalogSerializer.create: resolve the query, then insert the
\* catalog that references it.  An exception leaves no catalog.
SerializerCreate ==
    /\ ncalls < MaxCalls
    /\ ncalls' = ncalls + 1
    /\ \E given \in CreateKeys, data \in CreateData :
        /\ Canonical(given, data, [content_filter |-> <<1>>, catalog_query_uuid |-> "u1",
                                   query_title |-> None, include_exec_ed_2u_courses |-> FALSE])
        /\ LET a == CreateArguments(given, data)
               r == find_and_modify_catalog_query(store, a.content_filter, a.uuid,
                                                  a.title, a.flag)
           IN /\ store' = r.store
              /\ catalogs' = IF r.error = None THEN Append(catalogs, r.result)
                              ELSE catalogs
              /\ log' = Logged(CallRecord("create", a.content_filter, a.uuid, a.title,
                                          a.flag, r, Len(catalogs) + 1, given))
              /\ UNCHANGED serializing

\* EnterpriseCatalogSerializer.update of catalog c: resolve the query, then
\* save the catalog with the query returned.  An exception saves nothing.
SerializerUpdate ==
    /\ ncalls < MaxCalls
    /\ ncalls' = ncalls + 1
    /\ \E c \in DOMAIN catalogs, given \in UpdateKeys, data \in UpdateData :
        /\ Canonical(given, data, [content_filter |-> <<1>>, catalog_query_uuid |-> None,
                                   query_title |-> "A", include_exec_ed_2u_courses |-> TRUE])
        /\ LET a == UpdateArguments(store, catalogs[c], given, data)
               r == find_and_modify_catalog_query(store, a.content_filter, a.uuid,
                                                  a.title, a.flag)
           IN /\ store' = r.store
              /\ catalogs' = IF r.error = None THEN [catalogs EXCEPT ![c] = r.result]
                              ELSE catalogs
              /\ log' = Logged(CallRecord("update", a.content_filter, a.uuid, a.title,
                                          a.flag, r, c, given))
              /\ UNCHANGED serializing

NextCatalog == SerializerCreate \/ SerializerUpdate

SpecCatalog == Init /\ [][NextCatalog]_vars

(***************************************************************************)
(* ContentMetadataSerializer.to_representation.                            *)
(*                                                                         *)
(* Python objects are kept by reference, so the model keeps them in a      *)
(* heap: dicts[a] is a metadata dict (a function from the keys present to  *)
(* values), lists[a] a course_runs list (a sequence of addresses of run    *)
(* dicts) and runs[a] a run dict.  A dict's course_runs value is the       *)
(* address of its list.  Strings are strings, None is None, a marketing    *)
(* url is the sequence of its parts.                                       *)
(***************************************************************************)
COURSE == "course"
COURSE_RUN == "courserun"
PROGRAM == "program"

RunKeys == {"r1", "r2"}

\* dict.get(key, default) and d[key] = value.
DictGet(d, key, default) == IF key \in DOMAIN d THEN d[key] ELSE default
SetItem(d, key, value) == (key :> value) @@ d

\* enterprise_catalog.get_content_enrollment_url(record), by the record's key.
EnrollmentUrl(content_key) ==
    CASE content_key = "r1" -> "enroll/r1"
      [] content_key = "r2" -> "enroll/r2"
      [] OTHER -> "enroll/c1"

\* enterprise_catalog.get_xapi_activity_id(content_resource, content_key).
XapiActivityId(content_type, content_key) == <<"xapi", content_type, content_key>>

\* update_query_parameters(url, get_enterprise_utm_context(enterprise_name)).
WithUtm(marketing_url, enterprise_name) ==
    <<marketing_url[1], "utm_source", enterprise_name>>

\* get_most_recent_modified_time: the latest of the three.
get_most_recent_modified_time(a, b, c) ==
    CHOOSE m \in {a, b, c} : \A x \in {a, b, c} : x <= m

\* is_any_course_run_active: some run of the list is marked active.
is_any_course_run_active(h, list) ==
    \E i \in DOMAIN list : DictGet(h.runs[list[i]], "is_active", FALSE)

\* Mutant: the urls are handed out by position, not by key.
AddCourseRunEnrollmentUrls_ByPosition(h, children, list) ==
    [h EXCEPT !.runs =
        [a \in DOMAIN h.runs |->
            IF \E i \in DOMAIN list : list[i] = a
            THEN LET i == CHOOSE i \in DOMAIN list : list[i] = a
                 IN SetItem(h.runs[a], "enrollment_url",
                            IF i \in DOMAIN children THEN EnrollmentUrl(children[i])
                            ELSE None)
            ELSE h.runs[a]]]

\* _add_course_run_enrollment_urls: the url of each child record by content
\* key, then written into every run dict of the list, where it is.
AddCourseRunEnrollmentUrls(h, children, list) ==
    LET urls_by_course_run_key ==
            [k \in {children[i] : i \in DOMAIN children} |-> EnrollmentUrl(k)]
    IN [h EXCEPT !.runs =
        [a \in DOMAIN h.runs |->
            IF \E i \in DOMAIN list : list[i] = a
            THEN SetItem(h.runs[a], "enrollment_url",
                         DictGet(urls_by_course_run_key, h.runs[a]["key"], None))
            ELSE h.runs[a]]]

\* `if not instance.is_exec_ed_2u_course`.
NestedUrlsWanted(instance) == ~instance.is_exec_ed_2u_course

\* to_representation: the heap after the call and the address of the dict
\* returned.  dict.copy() makes a new dict with the same values: the copy's
\* course_runs is the list of the original.
to_representation(h, instance, ctx) ==
    LET source == h.dicts[instance.json_metadata]
        copy == Len(h.dicts) + 1
        marketing_url == DictGet(source, "marketing_url", <<>>)
        content_key == DictGet(source, "key", None)
        modified_time == get_most_recent_modified_time(
                             instance.modified, ctx.modified, ctx.customer_modified)
        d1 == SetItem(source, "content_last_modified", modified_time)
        d2 == IF marketing_url # <<>>
              THEN SetItem(d1, "marketing_url", WithUtm(marketing_url, ctx.enterprise_name))
              ELSE d1
        d3 == IF instance.content_type \in {COURSE, COURSE_RUN}
              THEN SetItem(SetItem(d2, "enrollment_url", EnrollmentUrl(instance.content_key)),
                           "xapi_activity_id",
                           XapiActivityId(instance.content_type, content_key))
              ELSE IF instance.content_type = PROGRAM
              THEN SetItem(d2, "enrollment_url", None)
              ELSE d2
        \* json_metadata.get('course_runs', []): the list itself, or a new empty one
        serialized_course_runs ==
            IF "course_runs" \in DOMAIN source THEN h.lists[source["course_runs"]] ELSE <<>>
        d4 == IF instance.content_type = COURSE
              THEN SetItem(d3, "active", is_any_course_run_active(h, serialized_course_runs))
              ELSE d3
        h1 == [h EXCEPT !.dicts = Append(h.dicts, d4)]
        h2 == IF instance.content_type = COURSE /\ NestedUrlsWanted(instance)
              THEN AddCourseRunEnrollmentUrls(h1, ctx.children, serialized_course_runs)
              ELSE h1
    IN [heap |-> h2, result |-> copy]

\* The value of a metadata dict, its course_runs list and run dicts included.
DeepValue(h, a) ==
    LET d == h.dicts[a]
    IN [dict |-> d,
        course_runs |-> IF "course_runs" \in DOMAIN d
                        THEN [i \in DOMAIN h.lists[d["course_runs"]] |->
                                 h.runs[h.lists[d["course_runs"]][i]]]
                        ELSE <<>>]

\* The run dicts a record may hold: a key, perhaps an enrollment_url already,
\* perhaps marked active.
RunDicts ==
    { [key |-> k] : k \in RunKeys }
    \cup { [key |-> k, enrollment_url |-> "stale"] : k \in RunKeys }
    \cup { [key |-> "r1", is_active |-> TRUE] }

RECURSIVE SeqsUpTo(_, _)
SeqsUpTo(S, n) ==
    IF n = 0 THEN {<<>>}
    ELSE LET shorter == SeqsUpTo(S, n - 1)
         IN shorter \cup {Append(q, x) : q \in shorter, x \in S}

\* The child course-run records of a course, by content key.
Children == {<<>>, <<"r1">>, <<"r2">>, <<"r1", "r2">>, <<"r2", "r1">>}

\* The json_metadata of a record, with or without a marketing url and a
\* course_runs list (at address 1).
MetadataDicts(withRuns) ==
    LET base == {[key |-> "c1"], [key |-> "c1", marketing_url |-> <<>>],
                 [key |-> "c1", marketing_url |-> <<"http://m">>]}
    IN IF withRuns THEN {SetItem(d, "course_runs", 1) : d \in base} ELSE base

InitEnrich ==
    /\ store = <<>> /\ catalogs = <<>> /\ log = <<>> /\ ncalls = 0
    /\ export = [pc |-> "idle"]
    /\ \E content_type \in {COURSE, COURSE_RUN, PROGRAM}, exec_ed \in BOOLEAN,
          withRuns \in BOOLEAN, runs \in SeqsUpTo(RunDicts, MaxRuns),
          children \in Children, modified \in {1, 2}, catalog_modified \in {1, 3} :
        /\ withRuns \/ runs = <<>>
        /\ exec_ed => content_type = COURSE
        /\ \E d \in MetadataDicts(withRuns) :
            LET h == [dicts |-> <<d>>,
                      lists |-> IF withRuns THEN <<[i \in DOMAIN runs |-> i]>> ELSE <<>>,
                      runs |-> runs]
            IN enrich = [pc |-> "start",
                         instance |-> [content_type |-> content_type,
                                       content_key |-> "c1",
                                       is_exec_ed_2u_course |-> exec_ed,
                                       modified |-> modified,
                                       json_metadata |-> 1],
                         ctx |-> [modified |-> catalog_modified,
                                  customer_modified |-> 2,
                                  enterprise_name |-> "E",
                                  children |-> children],
                         heap |-> h,
                         input |-> DeepValue(h, 1),
                         result |-> 0]

\* The serializer renders the record.
ToRepresentation ==
    /\ enrich.pc = "start"
    /\ LET r == to_representation(enrich.heap, enrich.instance, enrich.ctx)
       IN enrich' = [enrich EXCEPT !.pc = "done", !.heap = r.heap, !.result = r.result]
    /\ UNCHANGED <<resolving, export>>

NextEnrich == ToRepresentation

SpecEnrich == InitEnrich /\ [][NextEnrich]_vars

(***************************************************************************)
(* export_utils.course_hit_to_row.                                         *)
(*                                                                         *)
(* A hit is a function from the keys present to their values.  A nested    *)
(* dict is such a function too, {} is the empty function, and a key whose  *)
(* value is null holds JsonNull.  A cell is a record: the null cell, or a  *)
(* string cell with the pieces ', '.join put together ('' has none).       *)
(***************************************************************************)
CSV_COURSE_HEADERS ==
    <<"Title", "Partner Name", "Start", "End", "Verified Upgrade Deadline",
      "Program Type", "Program Name", "Pacing", "Level", "Price", "Language",
      "URL", "Short Description", "Subjects", "Key", "Short Key", "Skills",
      "Min Effort", "Max Effort", "Length", "What You'll Learn", "Pre-requisites">>

JsonNull == [json_null |-> TRUE]
IsNull(v) == DOMAIN v = {"json_null"}
\* Python truthiness of a dict or None.
TruthyDict(v) == ~IsNull(v) /\ DOMAIN v # {}

NullCell == [kind |-> "null", value |-> <<>>]
StrCell(pieces) == [kind |-> "str", value |-> pieces]

\* hit.get(key): the cell of a plain value, the null cell when absent.
GetCell(d, key) == IF key \in DOMAIN d THEN StrCell(<<d[key]>>) ELSE NullCell
\* ', '.join(hit.get(key, [])).
JoinCell(d, key) == StrCell(DictGet(d, key, <<>>))
\* ', '.join(x['name'] for x in hit.get(key, [])).
JoinNamesCell(d, key) ==
    LET xs == DictGet(d, key, <<>>) IN StrCell([i \in DOMAIN xs |-> xs[i].name])
\* strip_tags(hit.get(key, '')): the text without its markup.
StripTagsCell(d, key) ==
    IF key \in DOMAIN d THEN StrCell(<<d[key].text>>) ELSE StrCell(<<>>)
\* parser.parse(value).strftime(DATE_FORMAT): the day of a date-time.
DateCell(d, key) ==
    IF key \in DOMAIN d THEN StrCell(<<d[key].day>>) ELSE NullCell

\* Lines 125-149: the cells for start, end and upgrade deadline, then
\* pacing_type and key.  hit['advertised_course_run']['pacing_type'] is a
\* plain subscript: it raises KeyError when the run has no pacing_type.
AdvertisedRunPart(hit) ==
    LET present == "advertised_course_run" \in DOMAIN hit
        run == hit["advertised_course_run"]
    IN IF present /\ TruthyDict(run)
       THEN IF "pacing_type" \notin DOMAIN run
            THEN [error |-> "KeyError", cells |-> <<>>, pacing_type |-> NullCell,
                  key |-> NullCell]
            ELSE [error |-> None,
                  cells |-> <<DateCell(run, "start"), DateCell(run, "end"),
                              DateCell(run, "upgrade_deadline")>>,
                  pacing_type |-> StrCell(<<run["pacing_type"]>>),
                  key |-> GetCell(run, "key")]
       ELSE [error |-> None, cells |-> <<NullCell, NullCell, NullCell>>,
             pacing_type |-> NullCell, key |-> NullCell]

\* Lines 170-179: hit.get('advertised_course_run', {}) is None when the key is
\* there with a null value, and None.get raises AttributeError.
EffortPart(hit) ==
    LET advertised_course_run == DictGet(hit, "advertised_course_run", <<>>)
    IN IF IsNull(advertised_course_run)
       THEN [error |-> "AttributeError", cells |-> <<>>]
       ELSE [error |-> None,
             cells |-> <<GetCell(advertised_course_run, "min_effort"),
                         GetCell(advertised_course_run, "max_effort"),
                         GetCell(advertised_course_run, "weeks_to_complete")>>]

course_hit_to_row(hit) ==
    LET run == AdvertisedRunPart(hit)
        effort == EffortPart(hit)
        partner == IF "partners" \in DOMAIN hit /\ hit["partners"] # <<>>
                   THEN StrCell(<<hit["partners"][1].name>>) ELSE NullCell
        csv_row ==
            <<GetCell(hit, "title"), partner>> \o run.cells
            \o <<JoinCell(hit, "programs"), JoinCell(hit, "program_titles"),
                 run.pacing_type, GetCell(hit, "level_type"),
                 GetCell(hit, "first_enrollable_paid_seat_price"),
                 GetCell(hit, "language"), GetCell(hit, "marketing_url"),
                 StripTagsCell(hit, "short_description"),
                 JoinCell(hit, "subjects"), run.key,
                 GetCell(hit, "aggregation_key"), JoinNamesCell(hit, "skills")>>
            \o effort.cells
            \o <<StripTagsCell(hit, "outcome"), StripTagsCell(hit, "prerequisites_raw")>>
    IN IF run.error # None THEN [error |-> run.error, row |-> <<>>]
       ELSE IF effort.error # None THEN [error |-> effort.error, row |-> <<>>]
       ELSE [error |-> None, row |-> csv_row]

\* A course hit with every optional key.
FullHit ==
    [title |-> "T", partners |-> <<[name |-> "P1"], [name |-> "P2"]>>,
     programs |-> <<"MicroMasters">>, program_titles |-> <<"PT1", "PT2">>,
     level_type |-> "Intermediate", first_enrollable_paid_seat_price |-> "100",
     language |-> "English", marketing_url |-> "http://m",
     short_description |-> [text |-> "short", markup |-> "p"],
     subjects |-> <<"S1", "S2">>, aggregation_key |-> "course:c1",
     skills |-> <<[name |-> "K1"]>>,
     outcome |-> [text |-> "outcome", markup |-> "ul"],
     prerequisites_raw |-> [text |-> "none", markup |-> "p"]]

FullRun ==
    [start |-> [day |-> "2023-06-01", time |-> "00:00:00Z"],
     end |-> [day |-> "2023-09-01", time |-> "12:00:00Z"],
     upgrade_deadline |-> [day |-> "2023-08-01", time |-> "00:00:00"],
     pacing_type |-> "self_paced", key |-> "course-v1:c1+r1",
     min_effort |-> "1", max_effort |-> "2", weeks_to_complete |-> "6"]

Restrict(f, keys) == [k \in keys |-> f[k]]

\* The advertised_course_run of a hit: null, or a dict with any of its keys.
AdvertisedRuns == {JsonNull} \cup {Restrict(FullRun, ks) : ks \in SUBSET DOMAIN FullRun}

\* The hits: at most MaxAbsent of the optional keys are absent, or all are;
\* advertised_course_run is absent, null, empty or any part of a full one.
Hits ==
    LET plain == {Restrict(FullHit, DOMAIN FullHit \ gone) :
                     gone \in {g \in SUBSET DOMAIN FullHit :
                                  Cardinality(g) <= MaxAbsent \/ g = DOMAIN FullHit}}
    IN plain \cup {("advertised_course_run" :> r) @@ h : h \in plain, r \in AdvertisedRuns}

(***************************************************************************)
(* export_utils.facets_to_query.  The bag is a dict of lists of strings;   *)
(* pop removes the key from the caller's dict.                             *)
(***************************************************************************)
FacetValues == {<<"">>, <<"abc">>, <<"abc", "x">>}
FacetBags ==
    UNION {[keys -> FacetValues] : keys \in SUBSET {"query", "q", "subjects"}}

Pop(d, key) == [k \in DOMAIN d \ {key} |-> d[k]]
\* facets.get(key) is truthy: the key is there with a list that is not empty.
TruthyList(d, key) == key \in DOMAIN d /\ d[key] # <<>>

\* The string returned and the bag after the call.
facets_to_query(facets) ==
    IF TruthyList(facets, "query")
    THEN [query |-> facets["query"][1], facets |-> Pop(facets, "query")]
    ELSE IF TruthyList(facets, "q")
    THEN [query |-> facets["q"][1], facets |-> Pop(facets, "q")]
    ELSE [query |-> "", facets |-> facets]

InitExport ==
    /\ store = <<>> /\ catalogs = <<>> /\ log = <<>> /\ ncalls = 0
    /\ enrich = [pc |-> "idle"]
    /\ \/ \E hit \in Hits :
            export = [pc |-> "start", fn |-> "course_hit_to_row", hit |-> hit]
       \/ \E facets \in FacetBags :
            export = [pc |-> "start", fn |-> "facets_to_query", facets |-> facets]

CourseHitToRow ==
    /\ export.pc = "start" /\ export.fn = "course_hit_to_row"
    /\ LET r == course_hit_to_row(export.hit)
       IN export' = [pc |-> "done", fn |-> export.fn, hit |-> export.hit,
                     error |-> r.error, row |-> r.row]
    /\ UNCHANGED <<resolving, enrich>>

FacetsToQuery ==
    /\ export.pc = "start" /\ export.fn = "facets_to_query"
    /\ LET r == facets_to_query(export.facets)
       IN export' = [pc |-> "done", fn |-> export.fn, before |-> export.facets,
                     facets |-> r.facets, query |-> r.query]
    /\ UNCHANGED <<resolving, enrich>>

NextExport == CourseHitToRow \/ FacetsToQuery

SpecExport == InitExport /\ [][NextExport]_vars

(***************************************************************************)
(* Properties of find_and_modify_catalog_query.  Each is stated of the     *)
(* last call made, whoever made it: every call is the last one in the      *)
(* state it leads to, so an invariant over the last call speaks of all.    *)
(***************************************************************************)
Called == log # <<>>
LastCall == log[Len(log)]
HashOf(c) == get_content_filter_hash(c.content_filter)

\* The rows of table st, other than row `id`, that hold the natural key.
HoldersOfKey(st, hash, flag, id) ==
    {j \in DOMAIN st : j # id /\ NaturalKey(st[j]) = <<hash, flag>>}

\* The call was given a uuid that a row of the table held (the row R).
UuidFound(c) == Truthy(c.uuid) /\ \E i \in DOMAIN c.before : c.before[i].uuid = c.uuid
RowOfUuid(c) == CHOOSE i \in DOMAIN c.before : c.before[i].uuid = c.uuid

\* The call was given a uuid no row held, while row K held its natural key.
UuidNotFoundKeyHeld(c) ==
    /\ Truthy(c.uuid)
    /\ \A i \in DOMAIN c.before : c.before[i].uuid # c.uuid
    /\ HoldersOfKey(c.before, HashOf(c), c.flag, 0) # {}
RowOfKey(c) == CHOOSE j \in HoldersOfKey(c.before, HashOf(c), c.flag, 0) : TRUE

\* Every row of the table before call c, but row `id`, is the same in the
\* current table.
OthersUntouched(c, id) ==
    \A j \in DOMAIN c.before : j # id => store[j] = c.before[j]

\* C1: a call whose uuid resolves to row R and that returns, returns R, has
\* overwritten R's content_filter, title, content_filter_hash and flag with the
\* call's filter, title, hash(filter) and flag, has kept R's uuid, and has
\* neither added, removed nor touched another row.
C1_UpdateByUuidOverwritesInPlace ==
    Called =>
        LET c == LastCall
            R == RowOfUuid(c)
        IN (UuidFound(c) /\ c.error = None) =>
            /\ c.result = R
            /\ store[R].uuid = c.uuid
            /\ store[R].content_filter = c.content_filter
            /\ store[R].title = c.title
            /\ store[R].content_filter_hash = HashOf(c)
            /\ store[R].include_exec_ed_2u_courses = c.flag
            /\ Len(store) = Len(c.before)
            /\ OthersUntouched(c, R)

\* C1's case: with another row in the table, a call by R's uuid returned after
\* changing R's filter, title and flag; and the table is the one it left.
C1_Witness ==
    /\ Called
    /\ LET c == LastCall
       IN /\ UuidFound(c)
          /\ c.error = None
          /\ Len(c.before) >= 2
          /\ c.before[RowOfUuid(c)].content_filter # c.content_filter
          /\ c.before[RowOfUuid(c)].title # c.title
          /\ c.before[RowOfUuid(c)].include_exec_ed_2u_courses # c.flag
          /\ c.result # 0

\* The update-by-uuid call would give R a natural key another row holds.
UpdateCollides(c) ==
    /\ UuidFound(c)
    /\ HoldersOfKey(c.before, HashOf(c), c.flag, RowOfUuid(c)) # {}

\* C2: when the update by uuid would give R a natural key that another row
\* holds, the call raises ValidationError keyed 'catalog_query', caused by the
\* IntegrityError, and the table is what it was before the call.
C2_CollisionRaisesAndKeepsStore ==
    Called =>
        LET c == LastCall
        IN UpdateCollides(c) =>
            /\ c.error = "ValidationError"
            /\ c.field = "catalog_query"
            /\ c.cause = "IntegrityError"
            /\ c.result = 0
            /\ store = c.before

\* C2's case: the last call collided while asking for a new title as well,
\* and the table still is the one before it.
C2_Witness ==
    /\ Called
    /\ LET c == LastCall
       IN /\ UpdateCollides(c)
          /\ c.error = "ValidationError"
          /\ c.before[RowOfUuid(c)].title # c.title
          /\ c.before[RowOfUuid(c)].content_filter # c.content_filter
          /\ store = c.before

\* C3 as the specification states it: with a uuid that matches no row and a
\* row K holding the natural key, K is returned with its content_filter, uuid
\* and title as they were.
C3_ExistingRowReturnedUnmodified ==
    Called =>
        LET c == LastCall
            K == RowOfKey(c)
        IN UuidNotFoundKeyHeld(c) =>
            /\ c.result = K
            /\ store[K].content_filter = c.before[K].content_filter
            /\ store[K].uuid = c.before[K].uuid
            /\ store[K].title = c.before[K].title

\* C3, amended: with a uuid that matches no row and a row K holding the natural
\* key, a call that returns returns K with its content_filter, uuid and title
\* overwritten by the call's; K's hash and flag, the number of rows and every
\* other row are as before.
C3_ExistingRowOverwrittenWithDefaults ==
    Called =>
        LET c == LastCall
            K == RowOfKey(c)
        IN (UuidNotFoundKeyHeld(c) /\ c.error = None) =>
            /\ c.result = K
            /\ store[K].content_filter = c.content_filter
            /\ store[K].uuid = c.uuid
            /\ store[K].title = c.title
            /\ NaturalKey(store[K]) = NaturalKey(c.before[K])
            /\ Len(store) = Len(c.before)
            /\ OthersUntouched(c, K)

\* C3's case: such a call returned, and K had another filter (of the same
\* hash), another title and another uuid before it.
C3_Witness ==
    /\ Called
    /\ LET c == LastCall
       IN /\ UuidNotFoundKeyHeld(c)
          /\ c.error = None
          /\ c.before[RowOfKey(c)].content_filter # c.content_filter
          /\ c.before[RowOfKey(c)].title # c.title
          /\ c.before[RowOfKey(c)].uuid # c.uuid
          /\ c.result # 0

\* Two calls in succession, both without a uuid, with the same hash and flag.
TwiceWithoutUuid(i) ==
    /\ i \in DOMAIN log /\ i + 1 \in DOMAIN log
    /\ ~Truthy(log[i].uuid) /\ ~Truthy(log[i + 1].uuid)
    /\ HashOf(log[i]) = HashOf(log[i + 1])
    /\ log[i].flag = log[i + 1].flag

\* C4: two calls in succession without a uuid, for the same hash and flag,
\* return the same row and create at most one row between them; the second
\* call changes nothing, so that a row the first call created keeps the first
\* call's content_filter and title whatever filter and title the second passed.
C4_GetOrCreateIdempotent ==
    LET i == Len(log) - 1
    IN  TwiceWithoutUuid(i) =>
            LET a == log[i]
                b == log[i + 1]
            IN /\ a.error = None /\ b.error = None
               /\ a.result = b.result
               /\ Len(store) <= Len(a.before) + 1
               /\ store = b.before
               /\ Len(b.before) = Len(a.before) + 1 =>
                     /\ store[b.result].content_filter = a.content_filter
                     /\ store[b.result].title = a.title

\* C4's case: the first call created the row, the second passed another filter
\* of the same hash and another title.
C4_Witness ==
    /\ Len(log) >= 2
    /\ LET i == Len(log) - 1
       IN /\ TwiceWithoutUuid(i)
          /\ Len(log[i + 1].before) = Len(log[i].before) + 1
          /\ log[i + 1].content_filter # log[i].content_filter
          /\ log[i + 1].title # log[i].title

\* No two rows of the table hold the same natural key.
UniqueNaturalKeys(st) ==
    \A i, j \in DOMAIN st : NaturalKey(st[i]) = NaturalKey(st[j]) => i = j

\* C5: after any sequence of calls no two rows share a natural key, and a call
\* that would have made two rows share one raised an error and wrote nothing.
C5_NaturalKeyUnique ==
    /\ UniqueNaturalKeys(store)
    /\ Called => /\ UniqueNaturalKeys(LastCall.before)
                 /\ UpdateCollides(LastCall) => LastCall.error # None

\* C5's case: the table holds two rows, made by calls of the two creating
\* branches, and the last call was an update by uuid that would have given
\* one the other's natural key, and raised.
C5_Witness ==
    /\ Len(store) >= 2
    /\ Called /\ UpdateCollides(LastCall) /\ LastCall.error # None
    /\ \E i, j \in DOMAIN store :
          store[i].uuid \in CallerUuids /\ store[j].uuid \notin CallerUuids

\* Every row of the table holds the hash of the filter it holds.
HashesMatchFilters(st) ==
    \A i \in DOMAIN st :
        st[i].content_filter_hash = get_content_filter_hash(st[i].content_filter)

\* C11: from a table whose rows all hold the hash of their own filter (the
\* empty table, and then every table a call was made on), after any sequence
\* of calls, of any branch, returning or raising, every row still holds the
\* hash of the filter it holds.
C11_HashNeverDriftsFromFilter ==
    /\ HashesMatchFilters(store)
    /\ Called => HashesMatchFilters(LastCall.before)

\* C11's case: a row was first rewritten through update_or_create with
\* another filter of the hash it held, and then given, by its uuid, a filter
\* of another hash.
C11_Witness ==
    /\ Len(log) = 2
    /\ UuidNotFoundKeyHeld(log[1])
    /\ log[1].error = None
    /\ log[1].before[RowOfKey(log[1])].content_filter # log[1].content_filter
    /\ LET c == LastCall
       IN /\ UuidFound(c)
          /\ c.error = None
          /\ RowOfUuid(c) = log[1].result
          /\ c.before[RowOfUuid(c)].content_filter_hash # HashOf(c)
          /\ store[RowOfUuid(c)].content_filter = c.content_filter

(***************************************************************************)
(* Properties of EnterpriseCatalogSerializer.update.                       *)
(***************************************************************************)
\* The last call was an update of a catalog, and the request carried no
\* catalog_query_uuid.
UpdateWithoutUuid(c) == c.op = "update" /\ "catalog_query_uuid" \notin c.given

\* C10: an update of a catalog whose request omits catalog_query_uuid resolves
\* with the uuid of the catalog's own query q and takes the update-by-uuid
\* branch.  When it succeeds the catalog still references q, q holds the
\* filter, title and flag resolved (the request's, or q's own for those the
\* request omits), no other row and no other catalog has changed, so that
\* every catalog that shared q reads the new fields; when it fails no catalog
\* has changed.  In neither case is the catalog pointed at another row.
C10_UpdateWithoutUuidKeepsQuery ==
    (Called /\ UpdateWithoutUuid(LastCall)) =>
        LET c == LastCall
            q == c.catalogsBefore[c.catalog]
        IN /\ c.uuid = c.before[q].uuid
           /\ c.branch = "uuid_found"
           /\ catalogs[c.catalog] = q
           /\ DOMAIN catalogs = DOMAIN c.catalogsBefore
           /\ \A d \in DOMAIN catalogs : catalogs[d] = c.catalogsBefore[d]
           /\ "content_filter" \notin c.given => c.content_filter = c.before[q].content_filter
           /\ "query_title" \notin c.given => c.title = c.before[q].title
           /\ "include_exec_ed_2u_courses" \notin c.given =>
                 c.flag = c.before[q].include_exec_ed_2u_courses
           /\ c.error = None =>
                 /\ c.result = q
                 /\ store[q] = Row(c.before[q].uuid, c.content_filter, c.title,
                                   HashOf(c), c.flag)
                 /\ Len(store) = Len(c.before)
                 /\ OthersUntouched(c, q)
           /\ c.error # None => store = c.before

\* C10's case: two catalogs share a query, another row holds the natural key
\* of the filter that an update without a uuid then gives one of them; the
\* update succeeded, with a flag that keeps the keys apart.
C10_Witness ==
    /\ Called /\ UpdateWithoutUuid(LastCall)
    /\ LET c == LastCall
           q == c.catalogsBefore[c.catalog]
       IN /\ c.error = None
          /\ "content_filter" \in c.given
          /\ c.before[q].content_filter # c.content_filter
          /\ \E d \in DOMAIN catalogs : d # c.catalog /\ catalogs[d] = q

\* C10's other case: the update without a uuid asked for a natural key that
\* another row holds, and raised.
C10_WitnessCollision ==
    /\ Called /\ UpdateWithoutUuid(LastCall)
    /\ LastCall.error = "ValidationError"
    /\ UpdateCollides(LastCall)

(***************************************************************************)
(* Properties of ContentMetadataSerializer.to_representation.              *)
(***************************************************************************)
Rendered == enrich.pc = "done"
Output == DeepValue(enrich.heap, enrich.result)
InputNow == DeepValue(enrich.heap, enrich.instance.json_metadata)

\* C6: to_representation never mutates its input record: after the call
\* instance.json_metadata, each entry of its course_runs list included, is
\* what it was before the call.
C6_InputNeverMutated ==
    Rendered => InputNow = enrich.input

\* What does hold of the input: the record's own dict keeps its keys and
\* values, and only the run dicts, shared with the copy, can change.
C6_TopLevelDictKept ==
    Rendered => InputNow.dict = enrich.input.dict

\* C7: for a course that is not exec-ed-2u every entry of the output's
\* course_runs carries an enrollment_url, which is the catalog's enrollment url
\* of the child record whose content key is the entry's key, or None when no
\* child has that key; for an exec-ed-2u course every entry has the
\* enrollment_url it had before the call, or none.
C7_NestedEnrollmentUrls ==
    (Rendered /\ enrich.instance.content_type = COURSE) =>
        LET out == Output.course_runs
            children == enrich.ctx.children
        IN /\ DOMAIN out = DOMAIN enrich.input.course_runs
           /\ \A i \in DOMAIN out :
                IF enrich.instance.is_exec_ed_2u_course
                THEN out[i] = enrich.input.course_runs[i]
                ELSE /\ "enrollment_url" \in DOMAIN out[i]
                     /\ out[i]["key"] = enrich.input.course_runs[i]["key"]
                     /\ out[i]["enrollment_url"] =
                          IF \E j \in DOMAIN children : children[j] = out[i]["key"]
                          THEN EnrollmentUrl(out[i]["key"])
                          ELSE None

\* C7's case: a course that is not exec-ed-2u was rendered with two runs, one
\* of a child record and one of none, the children in another order.
C7_Witness ==
    /\ Rendered
    /\ enrich.instance.content_type = COURSE
    /\ ~enrich.instance.is_exec_ed_2u_course
    /\ Len(Output.course_runs) = 2
    /\ Output.course_runs[1]["enrollment_url"] = None
    /\ Output.course_runs[2]["enrollment_url"] = "enroll/r1"
    /\ enrich.ctx.children = <<"r1">>

\* C7's other case: an exec-ed-2u course was rendered with a run that had no
\* enrollment_url and a run that had a stale one.
C7_WitnessExecEd ==
    /\ Rendered
    /\ enrich.instance.is_exec_ed_2u_course
    /\ Len(Output.course_runs) = 2
    /\ "enrollment_url" \notin DOMAIN Output.course_runs[1]
    /\ "enrollment_url" \in DOMAIN Output.course_runs[2]

(***************************************************************************)
(* Properties of export_utils.                                             *)
(***************************************************************************)
RowDone == export.pc = "done" /\ export.fn = "course_hit_to_row"
QueryDone == export.pc = "done" /\ export.fn = "facets_to_query"

\* The cells of the columns that come from advertised_course_run.
RunColumns == {3, 4, 5, 8, 15, 18, 19, 20}

\* C8: course_hit_to_row returns a row of as many cells as CSV_COURSE_HEADERS
\* has names, 22, for any course hit, and never raises: whether
\* advertised_course_run is missing, null or empty, or lacks pacing_type, key,
\* start, end or upgrade_deadline, the cells of what is absent are null.
C8_RowOf22Cells ==
    RowDone =>
        /\ export.error = None
        /\ Len(export.row) = Len(CSV_COURSE_HEADERS)
        /\ Len(export.row) = 22
        /\ ~(("advertised_course_run" \in DOMAIN export.hit)
              /\ TruthyDict(export.hit["advertised_course_run"])) =>
                 \A i \in RunColumns : export.row[i] = NullCell

\* What the code does give: a row of 22 cells, unless advertised_course_run is
\* null, or is a dict that is not empty and has no pacing_type.
C8_RowOf22CellsOrRaises ==
    RowDone =>
        LET hit == export.hit
            has == "advertised_course_run" \in DOMAIN hit
            run == hit["advertised_course_run"]
        IN IF has /\ IsNull(run) THEN export.error = "AttributeError"
           ELSE IF has /\ run # <<>> /\ "pacing_type" \notin DOMAIN run
           THEN export.error = "KeyError"
           ELSE export.error = None /\ Len(export.row) = 22

\* C9: facets_to_query returns the first value under 'query' if the bag has
\* it, else the first value under 'q', else ''; the key it read is gone from
\* the bag after the call, neither 'query' nor 'q' is left in it, every other
\* key is as it was, and a bag with neither key is unchanged.
C9_FacetsToQueryDestructive ==
    QueryDone =>
        LET b == export.before
            a == export.facets
        IN /\ export.query = IF "query" \in DOMAIN b THEN b["query"][1]
                             ELSE IF "q" \in DOMAIN b THEN b["q"][1]
                             ELSE ""
           /\ "query" \notin DOMAIN a
           /\ "q" \notin DOMAIN a
           /\ \A k \in DOMAIN b \ {"query", "q"} : k \in DOMAIN a /\ a[k] = b[k]
           /\ ("query" \notin DOMAIN b /\ "q" \notin DOMAIN b) => a = b

\* What the code does give: the key read is popped and nothing else.
C9_OnlyTheKeyReadIsRemoved ==
    QueryDone =>
        LET b == export.before
            a == export.facets
            read == IF "query" \in DOMAIN b THEN {"query"}
                    ELSE IF "q" \in DOMAIN b THEN {"q"} ELSE {}
        IN /\ export.query = IF "query" \in DOMAIN b THEN b["query"][1]
                             ELSE IF "q" \in DOMAIN b THEN b["q"][1]
                             ELSE ""
           /\ DOMAIN a = DOMAIN b \ read
           /\ \A k \in DOMAIN a : a[k] = b[k]

=============================================================================
